---- MODULE Spec2Model ----
(***************************************************************************)
(* Model of the IconSet class of @iconify/tools (src/icon-set/index.ts):   *)
(* the entry store (icons, aliases, variations), the alias resolver, the   *)
(* mutation API (remove, rename, setItem), the category index, the theme   *)
(* tables, the character map and the forEach loop.                         *)
(*                                                                         *)
(* entries, order: the entry store and the enumeration order of its keys;  *)
(* categories, cats: the category index (cats holds every category record  *)
(* ever created, categories the registered ones); prefixes, suffixes: the  *)
(* theme tables; each: the running forEach call; last, pre: the last call  *)
(* with its arguments and result, and the store before it.                 *)
(*                                                                         *)
(* Names and category titles are strings in the program; here they are     *)
(* abstract identifiers 1..n (none of them is an integer-like key, so the  *)
(* store enumerates its keys in insertion order: `order`).                 *)
(***************************************************************************)
EXTENDS Integers, Sequences, FiniteSets, TLC

VARIABLES entries, order, categories, cats, prefixes, suffixes, each, last, pre

vars == <<entries, order, categories, cats, prefixes, suffixes, each, last, pre>>

(***************************************************************************)
(* Bounds of the model.                                                    *)
(***************************************************************************)
\* names of the small documents with every shape of reference graph
NumNames == 3
\* names of the chain documents n1 -> n2 -> ... (deep reference chains)
ChainLen == 9
\* icons interrupting a chain document
MaxBreaks == 2
\* category titles
NumTitles == 2
\* category records ever created
MaxCats == 2
\* legacy themes of a document
MaxThemes == 2
\* characters of a character map
NumChars == 2
\* changes of the store during one forEach call
MaxEdits == 2
\* names of the stores that sequences of mutations work on
NumSeqNames == 2
\* names in the argument of chars
MaxList == 2

(***************************************************************************)
(* Program constants.                                                      *)
(***************************************************************************)
maxIteration == 6

Names == 1..(IF NumNames > ChainLen THEN NumNames ELSE ChainLen)
SmallNames == 1..NumNames
Titles == 1..NumTitles

\* parent field of an entry that has none (icons)
NoName == 0

\* the absent result of resolve / findCategory / listCategory
Null == [null |-> TRUE]

EmptyProps == [k \in {} |-> 0]

BoolProps == {"hFlip", "vFlip", "hidden"}

(***************************************************************************)
(* Entries.  One record shape for the three kinds; an icon has no parent,  *)
(* an alias no props.                                                      *)
(***************************************************************************)
IconSetIcon(body, props, chars, categs) ==
    [type |-> "icon", parent |-> NoName, body |-> body, props |-> props,
     chars |-> chars, categories |-> categs]

IconSetIconAlias(parent, chars) ==
    [type |-> "alias", parent |-> parent, body |-> 0, props |-> EmptyProps,
     chars |-> chars, categories |-> {}]

IconSetIconVariation(parent, props, chars) ==
    [type |-> "variation", parent |-> parent, body |-> 0, props |-> props,
     chars |-> chars, categories |-> {}]

Range(s) == {s[i] : i \in 1..Len(s)}

\* the keys of a sequence of names that satisfy a test, in the same order
RECURSIVE FilterSeq(_, _)
FilterSeq(s, keep) ==
    IF s = << >> THEN << >>
    ELSE (IF Head(s) \in keep THEN <<Head(s)>> ELSE << >>) \o FilterSeq(Tail(s), keep)

\* the members of a set of names as a sequence in ascending order
RECURSIVE Ascending(_)
Ascending(S) ==
    IF S = {} THEN << >>
    ELSE LET m == CHOOSE x \in S : \A y \in S : x <= y
         IN <<m>> \o Ascending(S \ {m})

(***************************************************************************)
(* resolve                                                                 *)
(***************************************************************************)
\* JavaScript truthiness of a property value: `if (value)`
Truthy(attr, value) ==
    IF attr \in BoolProps THEN value = TRUE ELSE value # 0

\* the merge with rotations that add up without wrapping
MergeValueNoWrap(attr, parentValue, value) ==
    CASE attr = "rotate" -> parentValue + value
      [] attr \in {"hFlip", "vFlip"} -> ~parentValue
      [] OTHER -> value

\* the merge of one property that the parent already has
MergeValue(attr, parentValue, value) ==
    CASE attr = "rotate" -> (parentValue + value) % 4
      [] attr \in {"hFlip", "vFlip"} -> ~parentValue
      [] OTHER -> value

\* the loop over the properties of a variation
MergeProps(parent, props) ==
    LET applied == {k \in DOMAIN props : Truthy(k, props[k])}
    IN [attr \in DOMAIN parent \cup applied |->
          IF attr \in applied
          THEN IF attr \notin DOMAIN parent
               THEN props[attr]
               ELSE MergeValue(attr, parent[attr], props[attr])
          ELSE parent[attr]]

RECURSIVE getIcon(_, _, _)

\* getIcon with the depth test off by one (>= instead of >)
getIconOffByOne(ents, name, iteration) ==
    IF name \notin DOMAIN ents \/ iteration >= maxIteration
    THEN Null
    ELSE LET item == ents[name]
         IN CASE item.type = "icon" -> ("body" :> item.body) @@ item.props
              [] item.type = "alias" -> getIcon(ents, item.parent, iteration + 1)
              [] item.type = "variation" ->
                   LET parent == getIcon(ents, item.parent, iteration + 1)
                   IN IF parent = Null THEN Null
                      ELSE MergeProps(parent, item.props)

getIcon(ents, name, iteration) ==
    IF name \notin DOMAIN ents \/ iteration > maxIteration
    THEN Null
    ELSE LET item == ents[name]
         IN CASE item.type = "icon" -> ("body" :> item.body) @@ item.props
              [] item.type = "alias" -> getIcon(ents, item.parent, iteration + 1)
              [] item.type = "variation" ->
                   LET parent == getIcon(ents, item.parent, iteration + 1)
                   IN IF parent = Null THEN Null
                      ELSE MergeProps(parent, item.props)

resolve(ents, name) == getIcon(ents, name, 0)

\* the icon at the end of the chain of a name
RECURSIVE BaseOf(_, _, _)
BaseOf(ents, name, iteration) ==
    IF name \notin DOMAIN ents \/ iteration > maxIteration THEN NoName
    ELSE IF ents[name].type = "icon" THEN name
         ELSE BaseOf(ents, ents[name].parent, iteration + 1)

\* the merge written to the stored properties of the icon of the chain
MergeTargetStored(ents, name) == BaseOf(ents, name, 0)

\* the entry whose stored properties the variation case of getIcon writes
\* to: none, the icon case returns a new object {body, ...props}
MergeTarget(ents, name) == NoName

\* the store after resolve(name)
resolveEntries(ents, name) ==
    LET target == MergeTarget(ents, name)
        icon == resolve(ents, name)
    IN IF target = NoName \/ icon = Null THEN ents
       ELSE [ents EXCEPT ![target].props = [attr \in DOMAIN icon \ {"body"} |-> icon[attr]]]

(***************************************************************************)
(* remove                                                                  *)
(***************************************************************************)
\* removeDependencies: true, false or the name of the new parent
DepAll == [kind |-> "all", parent |-> NoName]
DepNone == [kind |-> "none", parent |-> NoName]
DepParent(p) == [kind |-> "parent", parent |-> p]

\* del(name, iteration) and its loop over the keys of the store; the state
\* they share (entries, names) is threaded through the result
RECURSIVE del(_, _, _, _, _, _), delLoop(_, _, _, _, _, _, _)

\* del that looks for dependents of the removed name only, not of its
\* dependents (`!iteration` applied to both modes)
delDirectOnly(ents, ord, names, dep, name, iteration) ==
    IF name \notin DOMAIN ents \/ iteration > maxIteration \/ name \in names
    THEN [ok |-> FALSE, entries |-> ents, names |-> names]
    ELSE IF iteration = 0 /\ dep.kind \in {"all", "parent"}
         THEN delLoop(ents, ord, names \cup {name}, dep, name, iteration, 1)
         ELSE [ok |-> TRUE, entries |-> ents, names |-> names \cup {name}]

\* del that never looks for the dependents of a name it deletes
delNoCascade(ents, ord, names, dep, name, iteration) ==
    IF name \notin DOMAIN ents \/ iteration > maxIteration \/ name \in names
    THEN [ok |-> FALSE, entries |-> ents, names |-> names]
    ELSE IF iteration = 0 /\ dep.kind = "parent"
         THEN delLoop(ents, ord, names \cup {name}, dep, name, iteration, 1)
         ELSE [ok |-> TRUE, entries |-> ents, names |-> names \cup {name}]

del(ents, ord, names, dep, name, iteration) ==
    IF name \notin DOMAIN ents \/ iteration > maxIteration \/ name \in names
    THEN [ok |-> FALSE, entries |-> ents, names |-> names]
    ELSE IF dep.kind = "all" \/ (iteration = 0 /\ dep.kind = "parent")
         THEN delLoop(ents, ord, names \cup {name}, dep, name, iteration, 1)
         ELSE [ok |-> TRUE, entries |-> ents, names |-> names \cup {name}]

delLoop(ents, ord, names, dep, name, iteration, i) ==
    IF i > Len(ord)
    THEN [ok |-> TRUE, entries |-> ents, names |-> names]
    ELSE LET key == ord[i]
             item == ents[key]
         IN IF item.type # "icon" /\ item.parent = name
            THEN IF dep.kind = "all"
                 THEN LET r == del(ents, ord, names, dep, key, iteration + 1)
                      IN IF ~r.ok
                         THEN r
                         ELSE delLoop(r.entries, ord, r.names, dep, name, iteration, i + 1)
                 ELSE delLoop([ents EXCEPT ![key].parent = dep.parent], ord, names,
                              dep, name, iteration, i + 1)
            ELSE delLoop(ents, ord, names, dep, name, iteration, i + 1)

\* the store without the names of a set
Delete(ents, names) == [n \in DOMAIN ents \ names |-> ents[n]]

\* remove that deletes from the store as it was before del re-parented the
\* children
removeStaleStore(ents, ord, name, dep) ==
    IF dep.kind = "parent" /\ (name = dep.parent \/ dep.parent \notin DOMAIN ents)
    THEN [entries |-> ents, order |-> ord, ret |-> 0]
    ELSE LET start == IF dep.kind = "parent" THEN {dep.parent} ELSE {}
             r == del(ents, ord, start, dep, name, 0)
             names == IF dep.kind = "parent" THEN r.names \ {dep.parent} ELSE r.names
         IN IF r.ok
            THEN [entries |-> Delete(ents, names),
                  order |-> FilterSeq(ord, DOMAIN ents \ names),
                  ret |-> Cardinality(names)]
            ELSE [entries |-> r.entries, order |-> ord, ret |-> 0]

\* remove that deletes the names del has collected even when del gave up
removeBestEffort(ents, ord, name, dep) ==
    IF dep.kind = "parent" /\ (name = dep.parent \/ dep.parent \notin DOMAIN ents)
    THEN [entries |-> ents, order |-> ord, ret |-> 0]
    ELSE LET start == IF dep.kind = "parent" THEN {dep.parent} ELSE {}
             r == del(ents, ord, start, dep, name, 0)
             names == IF dep.kind = "parent" THEN r.names \ {dep.parent} ELSE r.names
         IN [entries |-> Delete(r.entries, names),
             order |-> FilterSeq(ord, DOMAIN ents \ names),
             ret |-> Cardinality(names)]

remove(ents, ord, name, dep) ==
    IF dep.kind = "parent" /\ (name = dep.parent \/ dep.parent \notin DOMAIN ents)
    THEN [entries |-> ents, order |-> ord, ret |-> 0]
    ELSE LET start == IF dep.kind = "parent" THEN {dep.parent} ELSE {}
             r == del(ents, ord, start, dep, name, 0)
             names == IF dep.kind = "parent" THEN r.names \ {dep.parent} ELSE r.names
         IN IF r.ok
            THEN [entries |-> Delete(r.entries, names),
                  order |-> FilterSeq(ord, DOMAIN ents \ names),
                  ret |-> Cardinality(names)]
            ELSE [entries |-> r.entries, order |-> ord, ret |-> 0]

(***************************************************************************)
(* rename                                                                  *)
(***************************************************************************)
\* a rename that forgets its aliases
ReparentNothing(ents, oldName, newName) == ents

\* the loop that rewrites the parent of the entries that pointed at oldName
Reparent(ents, oldName, newName) ==
    [n \in DOMAIN ents |->
        IF ents[n].type # "icon" /\ ents[n].parent = oldName
        THEN [ents[n] EXCEPT !.parent = newName]
        ELSE ents[n]]

rename(ents, ord, oldName, newName) ==
    LET occupied == newName \in DOMAIN ents
         removed == IF occupied
                    THEN remove(ents, ord, newName, DepAll)
                    ELSE [entries |-> ents, order |-> ord, ret |-> 0]
    IN IF occupied /\ removed.ret = 0
       THEN [entries |-> removed.entries, order |-> removed.order, ret |-> FALSE]
       ELSE IF oldName \notin DOMAIN removed.entries
            THEN [entries |-> removed.entries, order |-> removed.order, ret |-> FALSE]
            ELSE LET moved == [n \in (DOMAIN removed.entries \cup {newName}) \ {oldName} |->
                                 IF n = newName THEN removed.entries[oldName]
                                 ELSE removed.entries[n]]
                     ord2 == FilterSeq(removed.order \o <<newName>>,
                                       Names \ {oldName})
                 IN [entries |-> Reparent(moved, oldName, newName),
                     order |-> ord2, ret |-> TRUE]

(***************************************************************************)
(* setItem                                                                 *)
(***************************************************************************)
\* setItem that checks the parent of aliases only
setItemAliasOnly(ents, ord, name, item) ==
    IF item.type = "alias" /\ item.parent \notin DOMAIN ents
    THEN [entries |-> ents, order |-> ord, ret |-> FALSE]
    ELSE [entries |-> [n \in DOMAIN ents \cup {name} |->
                         IF n = name THEN item ELSE ents[n]],
          order |-> IF name \in DOMAIN ents THEN ord ELSE ord \o <<name>>,
          ret |-> TRUE]

setItem(ents, ord, name, item) ==
    IF item.type \in {"alias", "variation"} /\ item.parent \notin DOMAIN ents
    THEN [entries |-> ents, order |-> ord, ret |-> FALSE]
    ELSE [entries |-> [n \in DOMAIN ents \cup {name} |->
                         IF n = name THEN item ELSE ents[n]],
          order |-> IF name \in DOMAIN ents THEN ord ELSE ord \o <<name>>,
          ret |-> TRUE]

(***************************************************************************)
(* Category index.  A category record is identified by its position in     *)
(* `cats` (object identity); `categories` is the set of the records that   *)
(* are registered, icons hold direct references.                           *)
(***************************************************************************)
NoCat == 0

IconCategory(title, count) == [title |-> title, count |-> count]

findCategory(cs, categs, title, add) ==
    LET found == {c \in categs : cs[c].title = title}
    IN IF found # {}
       THEN [cats |-> cs, categories |-> categs,
             ret |-> CHOOSE c \in found : \A d \in found : c <= d]
       ELSE IF add
            THEN [cats |-> Append(cs, IconCategory(title, 0)),
                  categories |-> categs \cup {Len(cs) + 1},
                  ret |-> Len(cs) + 1]
            ELSE [cats |-> cs, categories |-> categs, ret |-> NoCat]

\* _filter with the test of listCategory: visible icons of the category
CategoryIcons(ents, ord, categoryItem) ==
    FilterSeq(ord, {n \in DOMAIN ents :
                      /\ ents[n].type = "icon"
                      /\ ~("hidden" \in DOMAIN ents[n].props /\ ents[n].props["hidden"])
                      /\ categoryItem \in ents[n].categories})

\* listCategory that keeps an empty category registered
listCategoryItemKeep(ents, ord, cs, categs, categoryItem) ==
    LET icons == CategoryIcons(ents, ord, categoryItem)
        count == Len(icons)
        cs2 == [cs EXCEPT ![categoryItem].count = count]
    IN IF count = 0
       THEN [cats |-> cs2, categories |-> categs, ret |-> << >>, null |-> TRUE]
       ELSE [cats |-> cs2, categories |-> categs, ret |-> icons, null |-> FALSE]

\* listCategory of a category record
listCategoryItem(ents, ord, cs, categs, categoryItem) ==
    LET icons == CategoryIcons(ents, ord, categoryItem)
        count == Len(icons)
        cs2 == [cs EXCEPT ![categoryItem].count = count]
    IN IF count = 0
       THEN [cats |-> cs2, categories |-> categs \ {categoryItem},
             ret |-> << >>, null |-> TRUE]
       ELSE [cats |-> cs2, categories |-> categs, ret |-> icons, null |-> FALSE]

\* listCategory of a title
listCategory(ents, ord, cs, categs, title) ==
    LET f == findCategory(cs, categs, title, FALSE)
    IN IF f.ret = NoCat
       THEN [cats |-> cs, categories |-> categs, ret |-> << >>, null |-> TRUE]
       ELSE listCategoryItem(ents, ord, cs, categs, f.ret)

toggleCategory(ents, cs, categs, iconName, title, add) ==
    LET f == findCategory(cs, categs, title, add)
        categoryItem == f.ret
    IN IF iconName \notin DOMAIN ents \/ categoryItem = NoCat
       THEN [entries |-> ents, cats |-> f.cats, categories |-> f.categories,
             ret |-> FALSE]
       ELSE LET item == ents[iconName]
            IN IF item.type = "icon" /\ ((categoryItem \in item.categories) # add)
               THEN [entries |-> [ents EXCEPT ![iconName].categories =
                                    IF add THEN @ \cup {categoryItem}
                                    ELSE @ \ {categoryItem}],
                     cats |-> [f.cats EXCEPT ![categoryItem].count =
                                    @ + (IF add THEN 1 ELSE -1)],
                     categories |-> f.categories, ret |-> TRUE]
               ELSE [entries |-> ents, cats |-> f.cats,
                     categories |-> f.categories, ret |-> FALSE]

(***************************************************************************)
(* load.  A document is a record of its icons (name -> body, props), its   *)
(* aliases (name -> parent, props) and its categories (title -> names);    *)
(* its keys are enumerated in ascending order.  A document may also have   *)
(* a character map (chars: character -> name), legacy themes (themes: id   *)
(* -> title and optional prefix / suffix) and theme tables (prefixes,      *)
(* suffixes: key -> title).  The documents of this model declare no        *)
(* set-level dimensions and no info.                                       *)
(*                                                                         *)
(* Theme keys, legacy prefixes and suffixes, and the names the themes are  *)
(* matched against are strings: the identifier n stands for the string     *)
(* Text(n) over the alphabet Letters (0 for the empty string).             *)
(***************************************************************************)
Letters == <<"-", "a", "b">>

\* the string of an identifier and the identifier of a string
RECURSIVE Text(_)
Text(n) ==
    IF n = 0 THEN << >>
    ELSE LET d == ((n - 1) % Len(Letters)) + 1
         IN Append(Text((n - d) \div Len(Letters)), Letters[d])

RECURSIVE Code(_)
Code(text) ==
    IF text = << >> THEN 0
    ELSE Code(SubSeq(text, 1, Len(text) - 1)) * Len(Letters)
         + (CHOOSE d \in 1..Len(Letters) : Letters[d] = text[Len(text)])

\* String.prototype.slice: a negative index counts from the end, and both
\* indices are clamped to the string
SliceIndex(text, i) ==
    IF i < 0 THEN (IF Len(text) + i < 0 THEN 0 ELSE Len(text) + i)
    ELSE (IF i > Len(text) THEN Len(text) ELSE i)

slice(text, start, end) ==
    SubSeq(text, SliceIndex(text, start) + 1, SliceIndex(text, end))

sliceFrom(text, start) == slice(text, start, Len(text))

\* default values of the common properties (the filter's reference)
defaultCommonProps ==
    [rotate |-> 0, hFlip |-> FALSE, vFlip |-> FALSE, hidden |-> FALSE, width |-> 16]

\* the property filter: the known keys, without the default-valued ones when
\* compareDefaultValues is set
filterProps(data, compareDefaultValues) ==
    LET kept == {k \in DOMAIN data \cap DOMAIN defaultCommonProps :
                    ~compareDefaultValues \/ data[k] # defaultCommonProps[k]}
    IN [k \in kept |-> data[k]]

\* the entries of a document: its icons, then the aliases whose name is free
LoadEntries(doc) ==
    [n \in DOMAIN doc.icons \cup DOMAIN doc.aliases |->
        IF n \in DOMAIN doc.icons
        THEN IconSetIcon(doc.icons[n].body, filterProps(doc.icons[n].props, TRUE), {}, {})
        ELSE LET props == filterProps(doc.aliases[n].props, FALSE)
             IN IF DOMAIN props # {}
                THEN IconSetIconVariation(doc.aliases[n].parent, props, {})
                ELSE IconSetIconAlias(doc.aliases[n].parent, {})]

LoadOrder(doc) ==
    Ascending(DOMAIN doc.icons) \o Ascending(DOMAIN doc.aliases \ DOMAIN doc.icons)

\* the loop over the categories of a document, from the i-th title on
RECURSIVE LoadCategories(_, _, _, _, _, _)
LoadCategories(doc, titles, ents, ord, cs, categs) ==
    IF titles = << >>
    THEN [entries |-> ents, cats |-> cs, categories |-> categs]
    ELSE LET category == Head(titles)
             item == Len(cs) + 1
             ents2 == [n \in DOMAIN ents |->
                         IF n \in doc.categories[category] /\ ents[n].type = "icon"
                         THEN [ents[n] EXCEPT !.categories = @ \cup {item}]
                         ELSE ents[n]]
             listed == listCategoryItem(ents2, ord,
                                        Append(cs, IconCategory(category, 0)),
                                        categs \cup {item}, item)
         IN LoadCategories(doc, Tail(titles), ents2, ord, listed.cats, listed.categories)

\* the characters map of a document, added to the entries it names
LoadChars(doc, ents) ==
    IF "chars" \notin DOMAIN doc THEN ents
    ELSE [n \in DOMAIN ents |->
            [ents[n] EXCEPT !.chars = {char \in DOMAIN doc.chars : doc.chars[char] = n}]]

NoThemes == [key \in {} |-> 0]

\* the key a legacy theme gives to a theme table: its prefix without the
\* final '-', its suffix without the leading '-'
LegacyKeys(item, prop) ==
    IF prop = "prefixes"
    THEN IF "prefix" \in DOMAIN item /\ sliceFrom(Text(item.prefix), -1) = <<"-">>
         THEN {Code(slice(Text(item.prefix), 0, -1))} ELSE {}
    ELSE IF "suffix" \in DOMAIN item /\ slice(Text(item.suffix), 0, 1) = <<"-">>
         THEN {Code(sliceFrom(Text(item.suffix), 1))} ELSE {}

\* the import of the legacy themes, from the i-th theme on
RECURSIVE LoadLegacy(_, _, _, _)
LoadLegacy(doc, keys, prop, table) ==
    IF keys = << >> THEN table
    ELSE LET item == doc.themes[Head(keys)]
             imported == [key \in DOMAIN table \cup LegacyKeys(item, prop) |->
                            IF key \in LegacyKeys(item, prop) THEN item.title
                            ELSE table[key]]
         IN LoadLegacy(doc, Tail(keys), prop, imported)

\* the copy of an explicit table: a new table takes the place of the
\* imported one
LoadThemes(doc, prop) ==
    LET legacy == IF "themes" \in DOMAIN doc
                  THEN LoadLegacy(doc, Ascending(DOMAIN doc.themes), prop, NoThemes)
                  ELSE NoThemes
    IN IF prop \in DOMAIN doc
       THEN [key \in DOMAIN doc[prop] |-> doc[prop][key]]
       ELSE legacy

load(doc) ==
    LET r == LoadCategories(doc, Ascending(DOMAIN doc.categories),
                            LoadChars(doc, LoadEntries(doc)), LoadOrder(doc), << >>, {})
    IN [entries |-> r.entries, order |-> LoadOrder(doc),
        cats |-> r.cats, categories |-> r.categories,
        prefixes |-> LoadThemes(doc, "prefixes"),
        suffixes |-> LoadThemes(doc, "suffixes")]

(***************************************************************************)
(* Documents.                                                              *)
(***************************************************************************)
NoCategories == [t \in {} |-> {}]

RotateOnce == [rotate |-> 1]

\* documents over a few names with every shape of reference graph: each name
\* is absent, an icon, or an alias / variation of any of the names
SmallShapes ==
    {[type |-> "none", parent |-> NoName], [type |-> "icon", parent |-> NoName]}
    \cup [type : {"alias", "variation"}, parent : SmallNames]

DocOf(shape) ==
    LET icons == {n \in DOMAIN shape : shape[n].type = "icon"}
        aliases == {n \in DOMAIN shape : shape[n].type \in {"alias", "variation"}}
    IN [icons |-> [n \in icons |-> [body |-> n, props |-> EmptyProps]],
        aliases |-> [n \in aliases |->
                       [parent |-> shape[n].parent,
                        props |-> IF shape[n].type = "variation"
                                  THEN RotateOnce ELSE EmptyProps]],
        categories |-> NoCategories]

SmallDocs == {DocOf(shape) : shape \in [SmallNames -> SmallShapes]}

\* chain documents: n1 -> n2 -> ... -> nN -> n1, where the names of `breaks`
\* are icons and the others are all aliases or all variations
ChainNames == 1..ChainLen

ChainShape(breaks, kind) ==
    [n \in ChainNames |->
        IF n \in breaks THEN [type |-> "icon", parent |-> NoName]
        ELSE [type |-> kind, parent |-> IF n = ChainLen THEN 1 ELSE n + 1]]

ChainDocs ==
    {DocOf(ChainShape(breaks, kind)) :
        breaks \in {b \in SUBSET ChainNames : Cardinality(b) <= MaxBreaks},
        kind \in {"alias", "variation"}}

GraphDocs == SmallDocs \cup ChainDocs

\* the record of the last call: its arguments (document, name, to, mode,
\* item, title, add, prefix, names) and its result (ok: boolean, num: number or category
\* record, icon: resolved icon, list: list of names, with `null` set for an
\* absent result, valid: buckets of a theme check, map: character map, with
\* `threw` set when the call has raised an exception instead of returning)
NoChars == [char \in {} |-> 0]

NoItem == [type |-> "none", parent |-> NoName, body |-> 0, props |-> EmptyProps,
           chars |-> {}, categories |-> {}]

\* a document with nothing in it
NoDocument == [icons |-> << >>, aliases |-> << >>, categories |-> << >>]

Loaded ==
    [op |-> "load", document |-> NoDocument, name |-> NoName, to |-> NoName, mode |-> "", item |-> NoItem,
     title |-> 0, add |-> FALSE, prefix |-> FALSE, names |-> << >>,
     ok |-> TRUE, num |-> 0, icon |-> Null, list |-> << >>, null |-> FALSE,
     valid |-> NoThemes, map |-> NoChars, threw |-> FALSE]

\* the state of a forEach call: its position (idle: no call; loop: at the
\* head of the for loop; callback: in the callback; await: waiting for the
\* promise of the callback; done: returned), its arguments and locals
\* (types, names, i: position in names), the names the callback has been
\* called with, the results of the callbacks that have completed and the
\* number of promises the call has waited for; and, for the claims, the
\* store the call was made on (at), the number of changes of the store
\* since (edits) and, for each name that has left (removed) or entered
\* (added) the store since, the number of callbacks started before
NoMarks == [name \in {} |-> 0]

NoLoop ==
    [pc |-> "idle", types |-> {}, names |-> << >>, i |-> 0,
     log |-> << >>, results |-> << >>, awaited |-> 0,
     at |-> [entries |-> << >>, order |-> << >>], edits |-> 0,
     removed |-> NoMarks, added |-> NoMarks]

\* the marks of a set of names, set to the number of callbacks started
Marked(marks, names, e) ==
    [name \in DOMAIN marks \cup names |->
        IF name \in names THEN Len(e.log) ELSE marks[name]]

\* the record of a change of the store made while a callback of forEach
\* runs or its promise is pending
Edited(e, before, after) ==
    IF e.pc \notin {"callback", "await"} THEN e
    ELSE [e EXCEPT !.edits = @ + 1,
                   !.removed = Marked(@, DOMAIN before \ DOMAIN after, e),
                   !.added = Marked(@, DOMAIN after \ DOMAIN before, e)]

Snapshot == [entries |-> entries, order |-> order,
             categories |-> categories, cats |-> cats]

InitWith(docs) ==
    \E doc \in docs :
        LET l == load(doc)
        IN /\ entries = l.entries
           /\ order = l.order
           /\ categories = l.categories
           /\ cats = l.cats
           /\ prefixes = l.prefixes
           /\ suffixes = l.suffixes
           /\ each = NoLoop
           /\ last = [Loaded EXCEPT !.document = doc]
           /\ pre = [entries |-> l.entries, order |-> l.order,
                     categories |-> l.categories, cats |-> l.cats]

Init == InitWith(GraphDocs)

(***************************************************************************)
(* Operations on the entry store.                                          *)
(***************************************************************************)
\* the names a call can distinguish: the names the store mentions and one
\* name it does not mention
Mentioned(ents) ==
    DOMAIN ents \cup {ents[n].parent : n \in {m \in DOMAIN ents : ents[m].type # "icon"}}

NameInputs(ents) ==
    Mentioned(ents)
    \cup {n \in Names \ Mentioned(ents) : \A m \in Names \ Mentioned(ents) : n <= m}

DepInputs(ents) == {DepAll, DepNone} \cup {DepParent(p) : p \in NameInputs(ents)}

ItemInputs(ents) ==
    {IconSetIcon(0, EmptyProps, {}, {})}
    \cup {IconSetIconAlias(p, {}) : p \in NameInputs(ents)}
    \cup {IconSetIconVariation(p, RotateOnce, {}) : p \in NameInputs(ents)}

\* the calls on the entry store are made on a freshly loaded document (any
\* store over the names is the store of some document: load does not look
\* at the parents)
Fresh == last.op = "load"

Remove(name, dep) ==
    LET r == remove(entries, order, name, dep)
    IN /\ entries' = r.entries
       /\ order' = r.order
       /\ last' = [Loaded EXCEPT !.op = "remove", !.name = name, !.mode = dep.kind,
                                 !.to = dep.parent, !.num = r.ret]
       /\ pre' = Snapshot
       /\ each' = Edited(each, entries, r.entries)
       /\ UNCHANGED <<categories, cats, prefixes, suffixes>>

Rename(oldName, newName) ==
    LET r == rename(entries, order, oldName, newName)
    IN /\ entries' = r.entries
       /\ order' = r.order
       /\ last' = [Loaded EXCEPT !.op = "rename", !.name = oldName, !.to = newName,
                                 !.ok = r.ret]
       /\ pre' = Snapshot
       /\ UNCHANGED <<categories, cats, prefixes, suffixes, each>>

SetItem(name, item) ==
    LET r == setItem(entries, order, name, item)
    IN /\ entries' = r.entries
       /\ order' = r.order
       /\ last' = [Loaded EXCEPT !.op = "setItem", !.name = name, !.item = item,
                                 !.ok = r.ret]
       /\ pre' = Snapshot
       /\ each' = Edited(each, entries, r.entries)
       /\ UNCHANGED <<categories, cats, prefixes, suffixes>>

Resolve(name) ==
    /\ last' = [Loaded EXCEPT !.op = "resolve", !.name = name,
                              !.icon = resolve(entries, name),
                              !.null = (resolve(entries, name) = Null)]
    /\ pre' = Snapshot
    /\ entries' = resolveEntries(entries, name)
    /\ UNCHANGED <<order, categories, cats, prefixes, suffixes, each>>

RemoveCall == Fresh /\ \E name \in NameInputs(entries), dep \in DepInputs(entries) : Remove(name, dep)
RenameCall == Fresh /\ \E oldName, newName \in NameInputs(entries) : Rename(oldName, newName)
SetItemCall == Fresh /\ \E name \in NameInputs(entries), item \in ItemInputs(entries) : SetItem(name, item)
ResolveCall == Fresh /\ \E name \in NameInputs(entries) : Resolve(name)

Next == RemoveCall \/ RenameCall \/ SetItemCall \/ ResolveCall

Spec == Init /\ [][Next]_vars

TypeOK ==
    /\ DOMAIN entries \subseteq Names
    /\ Range(order) = DOMAIN entries
    /\ Len(order) = Cardinality(DOMAIN entries)
    /\ categories \subseteq 1..Len(cats)

(***************************************************************************)
(* Resolving variations: documents with one icon and one variation of it,  *)
(* each with any bag of properties.                                        *)
(***************************************************************************)
\* a property that is absent or has one of some values
Optional(attr, values) == {EmptyProps} \cup {attr :> v : v \in values}

PropBags ==
    {rotate @@ width @@ hFlip @@ hidden :
        rotate \in Optional("rotate", {0, 1, 3}),
        width \in Optional("width", {0, 16, 24}),
        hFlip \in Optional("hFlip", BOOLEAN),
        hidden \in Optional("hidden", BOOLEAN)}

PropsDocs ==
    {[icons |-> (1 :> [body |-> 1, props |-> iconProps]),
      aliases |-> (2 :> [parent |-> 1, props |-> varProps]),
      categories |-> NoCategories] :
        iconProps \in PropBags, varProps \in PropBags}

InitProps == InitWith(PropsDocs)

NextProps == ResolveCall

SpecProps == InitProps /\ [][NextProps]_vars

(***************************************************************************)
(* Category index: documents with a visible icon, a hidden icon and an     *)
(* alias of the first, with any declaration of categories.                 *)
(***************************************************************************)
Hidden == [hidden |-> TRUE]

\* n1 is a visible icon, n2 a hidden icon, n3 an alias of n1
CatIcons == (1 :> [body |-> 1, props |-> EmptyProps]) @@ (2 :> [body |-> 2, props |-> Hidden])
CatAliases == (3 :> [parent |-> 1, props |-> EmptyProps])

CatDocs ==
    {[icons |-> CatIcons, aliases |-> CatAliases, categories |-> lists] :
        lists \in UNION {[declared -> SUBSET (DOMAIN CatIcons \cup DOMAIN CatAliases)] :
                            declared \in SUBSET Titles}}

InitCat == InitWith(CatDocs)

\* a call may create a category record only while the model has room for one
Room(title, add) ==
    (add /\ findCategory(cats, categories, title, FALSE).ret = NoCat)
        => Len(cats) < MaxCats

FindCategory(title, add) ==
    LET r == findCategory(cats, categories, title, add)
    IN /\ Room(title, add)
       /\ cats' = r.cats
       /\ categories' = r.categories
       /\ last' = [Loaded EXCEPT !.op = "findCategory", !.title = title, !.add = add,
                                 !.num = r.ret, !.null = (r.ret = NoCat)]
       /\ pre' = Snapshot
       /\ UNCHANGED <<entries, order, prefixes, suffixes, each>>

ListCategory(title) ==
    LET r == listCategory(entries, order, cats, categories, title)
    IN /\ cats' = r.cats
       /\ categories' = r.categories
       /\ last' = [Loaded EXCEPT !.op = "listCategory", !.title = title,
                                 !.list = r.ret, !.null = r.null]
       /\ pre' = Snapshot
       /\ UNCHANGED <<entries, order, prefixes, suffixes, each>>

ListCategoryItem(categoryItem) ==
    LET r == listCategoryItem(entries, order, cats, categories, categoryItem)
    IN /\ cats' = r.cats
       /\ categories' = r.categories
       /\ last' = [Loaded EXCEPT !.op = "listCategoryItem", !.num = categoryItem,
                                 !.title = cats[categoryItem].title,
                                 !.list = r.ret, !.null = r.null]
       /\ pre' = Snapshot
       /\ UNCHANGED <<entries, order, prefixes, suffixes, each>>

ToggleCategory(iconName, title, add) ==
    LET r == toggleCategory(entries, cats, categories, iconName, title, add)
    IN /\ Room(title, add)
       /\ entries' = r.entries
       /\ cats' = r.cats
       /\ categories' = r.categories
       /\ last' = [Loaded EXCEPT !.op = "toggleCategory", !.name = iconName,
                                 !.title = title, !.add = add, !.ok = r.ret]
       /\ pre' = Snapshot
       /\ UNCHANGED <<order, prefixes, suffixes, each>>

FindCategoryCall == \E title \in Titles, add \in BOOLEAN : FindCategory(title, add)
ListCategoryCall == \E title \in Titles : ListCategory(title)
ListCategoryItemCall == \E categoryItem \in 1..Len(cats) : ListCategoryItem(categoryItem)
ToggleCategoryCall ==
    \E iconName \in NameInputs(entries), title \in Titles, add \in BOOLEAN :
        ToggleCategory(iconName, title, add)

NextCat ==
    FindCategoryCall \/ ListCategoryCall \/ ListCategoryItemCall \/ ToggleCategoryCall

SpecCat == InitCat /\ [][NextCat]_vars

(***************************************************************************)
(* Themes.                                                                 *)
(***************************************************************************)
\* String.prototype.localeCompare over the alphabet: negative, zero or
\* positive as a sorts before, with or after b
RECURSIVE localeCompare(_, _)
localeCompare(a, b) ==
    LET letter(text) == CHOOSE d \in 1..Len(Letters) : Letters[d] = Head(text)
    IN CASE a = << >> /\ b = << >> -> 0
         [] a = << >> /\ b # << >> -> -1
         [] a # << >> /\ b = << >> -> 1
         [] OTHER -> IF Head(a) = Head(b) THEN localeCompare(Tail(a), Tail(b))
                     ELSE letter(a) - letter(b)

\* the comparator of the sort
ThemeKeyCompare(a, b) ==
    IF Len(Text(a)) = Len(Text(b)) THEN localeCompare(Text(a), Text(b))
    ELSE Len(Text(b)) - Len(Text(a))

RECURSIVE sortThemeKeys(_)

\* the sort with the short keys first
sortThemeKeysShortFirst(keys) ==
    IF keys = {} THEN << >>
    ELSE LET first == CHOOSE a \in keys : \A b \in keys \ {a} : ThemeKeyCompare(b, a) < 0
         IN <<first>> \o sortThemeKeys(keys \ {first})

\* the keys of a table, sorted
sortThemeKeys(keys) ==
    IF keys = {} THEN << >>
    ELSE LET first == CHOOSE a \in keys : \A b \in keys \ {a} : ThemeKeyCompare(a, b) < 0
         IN <<first>> \o sortThemeKeys(keys \ {first})

\* the test of one key against a name
ThemeMatch(name, search, prefix) ==
    LET match == IF prefix THEN Text(search) \o <<"-">> ELSE <<"-">> \o Text(search)
        length == Len(match)
        test == IF prefix THEN slice(Text(name), 0, length)
                ELSE sliceFrom(Text(name), 0 - length)
    IN test = match

\* the loop over the sorted keys: the position of the first key that takes
\* the name, Len(keys) + 1 when none does
RECURSIVE ThemeOf(_, _, _, _)
ThemeOf(keys, i, name, prefix) ==
    IF i > Len(keys) THEN i
    ELSE IF Text(keys[i]) = << >> \/ ThemeMatch(name, keys[i], prefix) THEN i
         ELSE ThemeOf(keys, i + 1, name, prefix)

\* `hidden` of a property bag or of a resolved icon
IsHidden(props) == "hidden" \in DOMAIN props /\ props.hidden

\* the entries the filter calls its callback for: the icons and the
\* aliases and variations that resolve
Filtered(ents) ==
    {n \in DOMAIN ents : ents[n].type = "icon" \/ resolve(ents, n) # Null}

\* the entries the callback of checkTheme goes on with
ThemeShown(ents) ==
    {n \in Filtered(ents) :
        /\ ents[n].type # "alias"
        /\ ~IsHidden(ents[n].props)
        /\ ents[n].type = "icon" \/ ~IsHidden(resolve(ents, n))}

checkTheme(ents, ord, themes, prefix) ==
    LET keys == sortThemeKeys(DOMAIN themes)
        taken(n) == ThemeOf(keys, 1, n, prefix)
    IN [valid |-> [key \in DOMAIN themes |->
                     FilterSeq(ord, {n \in ThemeShown(ents) :
                                        taken(n) <= Len(keys) /\ keys[taken(n)] = key})],
        invalid |-> FilterSeq(ord, {n \in ThemeShown(ents) : taken(n) > Len(keys)})]

\* the names of the themed documents: visible icons, a hidden icon, an
\* alias, a variation, a variation of the hidden icon, a variation of a
\* missing name and a hidden variation
ThemedIcons ==
    (Code(<<"a", "-", "a", "-", "a">>) :> [body |-> 1, props |-> EmptyProps])
    @@ (Code(<<"a", "-", "b">>) :> [body |-> 2, props |-> EmptyProps])
    @@ (Code(<<"a", "b">>) :> [body |-> 3, props |-> EmptyProps])
    @@ (Code(<<"b", "-", "a">>) :> [body |-> 4, props |-> Hidden])

ThemedAliases ==
    (Code(<<"a", "-", "a">>) :> [parent |-> Code(<<"a", "-", "b">>), props |-> EmptyProps])
    @@ (Code(<<"b", "-", "b">>) :> [parent |-> Code(<<"a", "-", "b">>), props |-> RotateOnce])
    @@ (Code(<<"a", "-">>) :> [parent |-> Code(<<"b", "-", "a">>), props |-> RotateOnce])
    @@ (Code(<<"-", "b">>) :> [parent |-> Code(<<"b">>), props |-> RotateOnce])
    @@ (Code(<<"b", "-", "a", "b">>) :> [parent |-> Code(<<"a", "-", "b">>), props |-> Hidden])

\* the keys of the explicit tables and the legacy themes
ThemeKeys == {Code(<< >>), Code(<<"a">>), Code(<<"a", "-", "a">>), Code(<<"b">>)}

LegacyTitle == 1
ExplicitTitle == 2

LegacyThemes ==
    {[title |-> LegacyTitle, prefix |-> Code(<<"a", "-">>)],
     [title |-> LegacyTitle, suffix |-> Code(<<"-", "b">>)],
     [title |-> LegacyTitle, prefix |-> Code(<<"a", "-", "a", "-">>),
      suffix |-> Code(<<"-", "a">>)],
     [title |-> LegacyTitle, prefix |-> Code(<<"b">>), suffix |-> Code(<<"a", "-">>)]}

\* a field of a document that is absent or has one of some values
OptionalField(field, values) == {EmptyProps} \cup {field :> v : v \in values}

ThemeTables == UNION {[keys -> {ExplicitTitle}] : keys \in SUBSET ThemeKeys}

ThemeDocs ==
    {[icons |-> ThemedIcons, aliases |-> ThemedAliases, categories |-> NoCategories]
     @@ themes @@ explicitPrefixes @@ explicitSuffixes :
        themes \in OptionalField("themes",
                        UNION {[1..n -> LegacyThemes] : n \in 0..MaxThemes}),
        explicitPrefixes \in OptionalField("prefixes", ThemeTables),
        explicitSuffixes \in OptionalField("suffixes", ThemeTables)}

InitTheme == InitWith(ThemeDocs)

CheckTheme(prefix) ==
    LET r == checkTheme(entries, order, IF prefix THEN prefixes ELSE suffixes, prefix)
    IN /\ last' = [Loaded EXCEPT !.op = "checkTheme", !.prefix = prefix,
                                 !.valid = r.valid, !.list = r.invalid]
       /\ pre' = Snapshot
       /\ UNCHANGED <<entries, order, categories, cats, prefixes, suffixes, each>>

CheckThemeCall == \E prefix \in BOOLEAN : CheckTheme(prefix)

NextTheme == CheckThemeCall

SpecTheme == InitTheme /\ [][NextTheme]_vars

(***************************************************************************)
(* Sequences of mutations, on stores over a few names in which every       *)
(* parent is present; remove(name, false) is not among them.               *)
(***************************************************************************)
SeqNames == 1..NumSeqNames

SeqShapes ==
    {[type |-> "none", parent |-> NoName], [type |-> "icon", parent |-> NoName]}
    \cup [type : {"alias", "variation"}, parent : SeqNames]

\* every alias / variation of the store has its parent in the store
ParentsPresent(ents) ==
    \A name \in DOMAIN ents :
        ents[name].type # "icon" => ents[name].parent \in DOMAIN ents

SeqDocs ==
    {doc \in {DocOf(shape) : shape \in [SeqNames -> SeqShapes]} :
        ParentsPresent(load(doc).entries)}

InitSeq == InitWith(SeqDocs)

SeqItems ==
    {IconSetIcon(0, EmptyProps, {}, {})}
    \cup {IconSetIconAlias(p, {}) : p \in SeqNames}
    \cup {IconSetIconVariation(p, RotateOnce, {}) : p \in SeqNames}

RemoveCascading == \E name \in SeqNames : Remove(name, DepAll)
RemoveReparenting == \E name, newParentName \in SeqNames : Remove(name, DepParent(newParentName))
RenameNext == \E oldName, newName \in SeqNames : Rename(oldName, newName)
SetItemNext == \E name \in SeqNames, item \in SeqItems : SetItem(name, item)

NextSeq == RemoveCascading \/ RemoveReparenting \/ RenameNext \/ SetItemNext

SpecSeq == InitSeq /\ [][NextSeq]_vars

(***************************************************************************)
(* forEach.  The callback is the caller's: it returns a value or a promise *)
(* that settles later, and it may change the store while it runs (at most  *)
(* MaxEdits times per call of forEach in this model).                      *)
(***************************************************************************)
Kinds == {"icon", "variation", "alias"}

list(ents, ord, types) ==
    FilterSeq(ord, {name \in DOMAIN ents : ents[name].type \in types})

\* the head of the loop without the test of the entry
forEachStepUntested(ents, e) ==
    IF e.i > Len(e.names) THEN [e EXCEPT !.pc = "done"]
    ELSE [e EXCEPT !.pc = "callback", !.log = Append(@, e.names[e.i])]

\* the head of the loop: the end of the list, a name that has left the
\* store, or the call of the callback
forEachStep(ents, e) ==
    IF e.i > Len(e.names) THEN [e EXCEPT !.pc = "done"]
    ELSE IF e.names[e.i] \notin DOMAIN ents THEN [e EXCEPT !.i = @ + 1]
         ELSE [e EXCEPT !.pc = "callback", !.log = Append(@, e.names[e.i])]

\* the loop goes on with the next name without waiting for the promise
awaitNothing(e) == [e EXCEPT !.pc = "loop", !.i = @ + 1]

\* `result = await result`
awaitResult(e) == [e EXCEPT !.pc = "await", !.awaited = @ + 1]

\* the result of a callback, returned or awaited: false ends the call
forEachResult(e, result) ==
    IF result = "false"
    THEN [e EXCEPT !.pc = "done", !.results = Append(@, result)]
    ELSE [e EXCEPT !.pc = "loop", !.i = @ + 1, !.results = Append(@, result)]

\* documents with an icon n1, a second name of any kind over it and an
\* optional third name over one of them
IterShapes ==
    {(1 :> [type |-> "icon", parent |-> NoName]) @@ (2 :> second) @@ (3 :> third) :
        second \in {[type |-> "icon", parent |-> NoName],
                    [type |-> "alias", parent |-> 1],
                    [type |-> "variation", parent |-> 1]},
        third \in {[type |-> "none", parent |-> NoName],
                   [type |-> "alias", parent |-> 2],
                   [type |-> "variation", parent |-> 1]}}

IterDocs == {DocOf(shape) : shape \in IterShapes}

InitIter == InitWith(IterDocs)

ForEach(types) ==
    /\ each.pc = "idle"
    /\ each' = [NoLoop EXCEPT !.pc = "loop", !.types = types,
                              !.names = list(entries, order, types), !.i = 1,
                              !.at = [entries |-> entries, order |-> order]]
    /\ last' = [Loaded EXCEPT !.op = "forEach"]
    /\ pre' = Snapshot
    /\ UNCHANGED <<entries, order, categories, cats, prefixes, suffixes>>

ForEachStep ==
    /\ each.pc = "loop"
    /\ each' = forEachStep(entries, each)
    /\ UNCHANGED <<entries, order, categories, cats, prefixes, suffixes,
                   last, pre>>

CallbackReturns(result) ==
    /\ each.pc = "callback"
    /\ each' = forEachResult(each, result)
    /\ UNCHANGED <<entries, order, categories, cats, prefixes, suffixes,
                   last, pre>>

CallbackReturnsPromise ==
    /\ each.pc = "callback"
    /\ each' = awaitResult(each)
    /\ UNCHANGED <<entries, order, categories, cats, prefixes, suffixes,
                   last, pre>>

PromiseSettles(result) ==
    /\ each.pc = "await"
    /\ each' = forEachResult(each, result)
    /\ UNCHANGED <<entries, order, categories, cats, prefixes, suffixes,
                   last, pre>>

Results == {"false", "other"}

\* the entries a callback stores: an icon, an alias of the first key
IterItems(ord) ==
    {IconSetIcon(0, EmptyProps, {}, {})}
    \cup {IconSetIconAlias(ord[i], {}) : i \in {1} \cap DOMAIN ord}

\* the store can change while a callback runs or its promise is pending
InCallback == each.pc \in {"callback", "await"} /\ each.edits < MaxEdits

ForEachCall == \E types \in SUBSET Kinds : ForEach(types)
CallbackReturnsCall == \E result \in Results : CallbackReturns(result)
PromiseSettlesCall == \E result \in Results : PromiseSettles(result)
CallbackRemoves == InCallback /\ \E name \in NameInputs(entries) : Remove(name, DepAll)
CallbackSetsItem ==
    InCallback /\ \E name \in NameInputs(entries), item \in IterItems(order) :
                    SetItem(name, item)

NextIter ==
    \/ ForEachCall
    \/ ForEachStep
    \/ CallbackReturnsCall
    \/ CallbackReturnsPromise
    \/ PromiseSettlesCall
    \/ CallbackRemoves
    \/ CallbackSetsItem

SpecIter == InitIter /\ [][NextIter]_vars

(***************************************************************************)
(* Character map.                                                          *)
(***************************************************************************)
\* the loop over the names, from the i-th name on: `item.chars` of a name
\* that is not in the store is a property of undefined, a TypeError
RECURSIVE charsLoop(_, _, _, _)
charsLoop(ents, names, i, map) ==
    IF i > Len(names) THEN [threw |-> FALSE, ret |-> map]
    ELSE IF names[i] \notin DOMAIN ents THEN [threw |-> TRUE, ret |-> NoChars]
         ELSE LET item == ents[names[i]]
              IN charsLoop(ents, names, i + 1,
                           [char \in DOMAIN map \cup item.chars |->
                               IF char \in item.chars THEN names[i] ELSE map[char]])

\* chars(names?): without names, the keys of the store
chars(ents, ord, given, names) ==
    charsLoop(ents, IF given THEN names ELSE ord, 1, NoChars)

Chars == 1..NumChars

\* documents with two icons and an alias, and any character map over them
\* and a name they do not have
CharDocs ==
    {[icons |-> (1 :> [body |-> 1, props |-> EmptyProps])
                @@ (2 :> [body |-> 2, props |-> EmptyProps]),
      aliases |-> (3 :> [parent |-> 1, props |-> EmptyProps]),
      categories |-> NoCategories,
      chars |-> map] :
        map \in UNION {[cs -> 1..4] : cs \in SUBSET Chars}}

InitChars == InitWith(CharDocs)

\* the lists of at most MaxList names
NameLists(ents) == UNION {[1..n -> NameInputs(ents)] : n \in 0..MaxList}

CharsOf(given, names) ==
    LET r == chars(entries, order, given, names)
    IN /\ last' = [Loaded EXCEPT !.op = "chars", !.add = given, !.names = names,
                                 !.map = r.ret, !.threw = r.threw]
       /\ pre' = Snapshot
       /\ UNCHANGED <<entries, order, categories, cats, prefixes, suffixes, each>>

CharsCall ==
    \/ CharsOf(FALSE, << >>)
    \/ \E names \in NameLists(entries) : CharsOf(TRUE, names)

NextChars == CharsCall

SpecChars == InitChars /\ [][NextChars]_vars

(***************************************************************************)
(* Reference chains, stated without the resolver: a walk along the parent  *)
(* fields that remembers the names it has seen.                            *)
(***************************************************************************)
\* the walk from a name along its chain: whether it ends in an icon (and
\* not in a missing name or a name met for the second time) and the number
\* of hops it has made
RECURSIVE Walk(_, _, _, _)
Walk(ents, n, seen, k) ==
    IF n \notin DOMAIN ents \/ n \in seen THEN [icon |-> FALSE, hops |-> k]
    ELSE IF ents[n].type = "icon" THEN [icon |-> TRUE, hops |-> k]
    ELSE Walk(ents, ents[n].parent, seen \cup {n}, k + 1)

\* the chain of a name ends in an icon after exactly / at most k hops
HopsAre(ents, name, k) ==
    Walk(ents, name, {}, 0).icon /\ Walk(ents, name, {}, 0).hops = k

HopsWithin(ents, name, k) ==
    Walk(ents, name, {}, 0).icon /\ Walk(ents, name, {}, 0).hops <= k

\* the number of hops from an alias / variation up to a target name; 0 if
\* its chain does not lead there
RECURSIVE Climb(_, _, _, _, _)
Climb(ents, n, target, seen, k) ==
    IF n \notin DOMAIN ents \/ n \in seen THEN 0
    ELSE IF ents[n].type = "icon" THEN 0
    ELSE IF ents[n].parent = target THEN k + 1
    ELSE Climb(ents, ents[n].parent, target, seen \cup {n}, k + 1)

Level(ents, n, target) == Climb(ents, n, target, {}, 0)

\* the aliases / variations whose parent chain leads to a name
Dependents(ents, name) == {n \in DOMAIN ents : Level(ents, n, name) > 0}

Children(ents, name) ==
    {n \in DOMAIN ents : ents[n].type # "icon" /\ ents[n].parent = name}

\* a cascading removal of name meets neither the depth bound nor a cycle
Cascadable(ents, name) ==
    /\ name \notin Dependents(ents, name)
    /\ \A n \in Dependents(ents, name) : Level(ents, n, name) <= maxIteration

(***************************************************************************)
(* Claims.                                                                 *)
(***************************************************************************)

\* C1: a rename that returns false leaves the entry store as it was before
\* the call.
C1_RenameFailureHasNoEffect ==
    (last.op = "rename" /\ ~last.ok)
        => (entries = pre.entries /\ order = pre.order)

\* C2 as stated: remove(name, true) on an existing entry deletes name and
\* every alias / variation whose chain leads to name, and resolve returns
\* not found for each of them.
C2_CascadeRemovesAllDependents ==
    (last.op = "remove" /\ last.mode = "all" /\ last.name \in DOMAIN pre.entries)
        => \A n \in {last.name} \cup Dependents(pre.entries, last.name) :
              n \notin DOMAIN entries /\ resolve(entries, n) = Null

\* C2, amended: remove(name, true) on an existing entry that is on no
\* reference cycle and has no dependent more than 6 levels below it deletes
\* exactly name and the aliases / variations whose chain leads to name,
\* returns their number, and resolve returns not found for each of them.
C2_CascadeWithinDepth ==
    (/\ last.op = "remove" /\ last.mode = "all"
     /\ last.name \in DOMAIN pre.entries
     /\ Cascadable(pre.entries, last.name))
        => LET gone == {last.name} \cup Dependents(pre.entries, last.name)
           IN /\ DOMAIN entries = DOMAIN pre.entries \ gone
              /\ last.num = Cardinality(gone)
              /\ \A n \in gone : resolve(entries, n) = Null
              /\ \A n \in DOMAIN entries : entries[n] = pre.entries[n]

C2_Witness ==
    /\ last.op = "remove" /\ last.mode = "all"
    /\ last.name \in DOMAIN pre.entries
    /\ \E n \in Dependents(pre.entries, last.name) :
          /\ Level(pre.entries, n, last.name) = maxIteration
          /\ resolve(pre.entries, n) # Null
          /\ n \notin DOMAIN entries
    /\ last.num = maxIteration + 1

\* the remove(name, newParentName) calls whose arguments are valid
ReparentingCall ==
    /\ last.op = "remove" /\ last.mode = "parent"
    /\ last.name \in DOMAIN pre.entries
    /\ last.to \in DOMAIN pre.entries
    /\ last.to # last.name

\* what C3 says of the store: one entry deleted, the direct children
\* re-parented, every other entry untouched
C3_StoreEffect ==
    /\ last.num = 1
    /\ DOMAIN entries = DOMAIN pre.entries \ {last.name}
    /\ \A n \in DOMAIN entries :
          IF n \in Children(pre.entries, last.name)
          THEN entries[n] = [pre.entries[n] EXCEPT !.parent = last.to]
          ELSE entries[n] = pre.entries[n]

\* the direct alias children of the removed name (other than itself)
AliasChildren ==
    {n \in Children(pre.entries, last.name) \ {last.name} :
        pre.entries[n].type = "alias"}

\* C3 as stated: after remove(name, newParentName) every former direct
\* alias child resolves to the same result as newParentName.
C3_ChildrenResolveLikeNewParent ==
    ReparentingCall
        => /\ C3_StoreEffect
           /\ \A n \in AliasChildren :
                 resolve(entries, n) = resolve(entries, last.to)

\* C3, amended: remove(name, newParentName) deletes exactly name, re-parents
\* its direct children and leaves every other entry unchanged; afterwards a
\* former direct alias child resolves to the same result as newParentName,
\* unless the chain of newParentName is exactly 6 hops long: then the child,
\* one hop further away, does not resolve.
C3_ChildrenOneHopDeeper ==
    ReparentingCall
        => /\ C3_StoreEffect
           /\ \A n \in AliasChildren :
                 resolve(entries, n) =
                    IF HopsAre(entries, last.to, maxIteration)
                    THEN Null
                    ELSE resolve(entries, last.to)

C3_Witness ==
    /\ ReparentingCall
    /\ \E n \in AliasChildren :
          /\ n # last.to
          /\ resolve(entries, n) # Null
          /\ resolve(entries, n) # resolve(pre.entries, n)
          /\ Children(pre.entries, n) # {}

\* C4: a cascading remove that meets a dependent more than 6 levels below
\* name returns 0 and leaves the entry store exactly as it was.
C4_CascadeAllOrNothing ==
    (/\ last.op = "remove" /\ last.mode = "all"
     /\ \E n \in Dependents(pre.entries, last.name) :
           Level(pre.entries, n, last.name) > maxIteration)
        => (last.num = 0 /\ entries = pre.entries /\ order = pre.order)

C4_Witness ==
    /\ last.op = "remove" /\ last.mode = "all"
    /\ last.name \notin Dependents(pre.entries, last.name)
    /\ \E n \in Dependents(pre.entries, last.name) :
          Level(pre.entries, n, last.name) = maxIteration + 1
    /\ last.num = 0

\* the rename(old, new) calls where old exists and new is occupied
RenameOntoOccupied ==
    /\ last.op = "rename"
    /\ last.name \in DOMAIN pre.entries
    /\ last.to \in DOMAIN pre.entries

\* what C5 says of the store after rename(old, new)
C5_Effect ==
    LET old == last.name
        new == last.to
    IN /\ old \notin DOMAIN entries
       /\ new \in DOMAIN entries
       /\ \A n \in Dependents(pre.entries, new) : n \notin DOMAIN entries
       /\ entries[new].type = pre.entries[old].type
       /\ \A n \in Children(pre.entries, old) \ ({new} \cup Dependents(pre.entries, new)) :
             LET m == IF n = old THEN new ELSE n
             IN m \in DOMAIN entries /\ entries[m].parent = new
       /\ resolve(entries, new) = resolve(pre.entries, old)

\* C5 as stated: every rename(old, new) with old present and new occupied
\* removes the occupant, re-parents the children of old and keeps the
\* resolved icon.
C5_RenameOntoOccupied == RenameOntoOccupied => C5_Effect

\* C5, amended: a rename(old, new) with old present and new occupied that
\* returns true has removed the occupant of new and its dependents; every
\* entry whose parent was old has parent new, old is gone, and new resolves
\* to what old resolved to before.
C5_RenameOntoOccupiedSucceeds ==
    (RenameOntoOccupied /\ last.ok) => C5_Effect

C5_Witness ==
    /\ RenameOntoOccupied /\ last.ok
    /\ Dependents(pre.entries, last.to) # {}
    /\ Children(pre.entries, last.name) # {}
    /\ resolve(entries, last.to) # Null

\* C6: resolve returns an icon exactly for the names whose chain ends in an
\* icon after at most 6 hops, and not found for every other name (unknown,
\* missing parent, cycle, longer chain).
C6_ResolveIffShortChain ==
    /\ \A n \in NameInputs(entries) :
          (resolve(entries, n) # Null) <=> HopsWithin(entries, n, maxIteration)
    /\ last.op = "resolve" =>
          /\ last.icon = resolve(entries, last.name)
          /\ ~last.null <=> HopsWithin(entries, last.name, maxIteration)

C6_Witness ==
    /\ last.op = "resolve"
    /\ HopsAre(entries, last.name, maxIteration)
    /\ ~last.null
    /\ \E n \in DOMAIN entries :
          HopsAre(entries, n, maxIteration + 1) /\ resolve(entries, n) = Null

\* C7: setItem rejects exactly the aliases / variations whose parent is not
\* a key of the store, and then changes nothing; every other call returns
\* true and changes the store only in that name maps to the entry.
C7_SetItem ==
    last.op = "setItem" =>
        LET item == last.item
            rejected == item.type \in {"alias", "variation"}
                        /\ item.parent \notin DOMAIN pre.entries
        IN /\ ~last.ok <=> rejected
           /\ rejected => (entries = pre.entries /\ order = pre.order)
           /\ ~rejected =>
                 /\ last.ok
                 /\ DOMAIN entries = DOMAIN pre.entries \cup {last.name}
                 /\ entries[last.name] = item
                 /\ \A n \in DOMAIN entries \ {last.name} :
                       entries[n] = pre.entries[n]

C7_Witness ==
    /\ last.op = "setItem"
    /\ last.item.type = "variation"
    /\ last.item.parent \notin DOMAIN pre.entries
    /\ last.name \in DOMAIN pre.entries
    /\ ~last.ok

\* C8 as stated: resolving a variation applies every override that is
\* present, whatever its value: copied if the resolved parent lacks the
\* property, negation of the parent's value for hFlip / vFlip, the
\* variation's value for every property other than rotate and the flips.
C8_EveryOverrideApplied ==
    (/\ last.op = "resolve"
     /\ last.name \in DOMAIN entries
     /\ entries[last.name].type = "variation"
     /\ resolve(entries, entries[last.name].parent) # Null)
        => LET parent == resolve(entries, entries[last.name].parent)
               props == entries[last.name].props
               result == last.icon
           IN \A attr \in DOMAIN props :
                 /\ attr \in DOMAIN result
                 /\ IF attr \notin DOMAIN parent THEN result[attr] = props[attr]
                    ELSE IF attr \in {"hFlip", "vFlip"} THEN result[attr] = ~parent[attr]
                    ELSE attr # "rotate" => result[attr] = props[attr]

\* the categories of the index that toggleCategory finds for its title
FoundBefore == {c \in pre.categories : pre.cats[c].title = last.title}

NotAnIcon ==
    last.name \notin DOMAIN pre.entries \/ pre.entries[last.name].type # "icon"

\* C9: toggleCategory returns false and changes neither the entries nor the
\* category index when the icon or the category cannot be resolved or the
\* membership already is as requested.
C9_ToggleCategoryNoOp ==
    (/\ last.op = "toggleCategory"
     /\ \/ NotAnIcon
        \/ (FoundBefore = {} /\ ~last.add)
        \/ /\ ~NotAnIcon
           /\ FoundBefore # {}
           /\ \A c \in FoundBefore :
                 (c \in pre.entries[last.name].categories) <=> last.add)
        => /\ ~last.ok
           /\ entries = pre.entries
           /\ categories = pre.categories
           /\ cats = pre.cats

\* the icons that list a category record, and the visible ones among them
Members(c) ==
    {n \in DOMAIN entries : entries[n].type = "icon" /\ c \in entries[n].categories}

VisibleMembers(c) ==
    {n \in Members(c) :
        ~("hidden" \in DOMAIN entries[n].props /\ entries[n].props["hidden"])}

\* toggleCategory(icon, title, false) has just removed the last member
LastMemberRemoved ==
    /\ last.op = "toggleCategory" /\ ~last.add /\ last.ok
    /\ \A c \in FoundBefore : Members(c) = {}

\* listCategory(title) has just been called for a registered category
\* without visible members
ListedEmpty ==
    /\ last.op = "listCategory"
    /\ FoundBefore # {}
    /\ \A c \in FoundBefore : VisibleMembers(c) = {}

\* C10 as stated: once toggleCategory has removed the last member of a
\* category, the category is no longer in the index and findCategory does
\* not find it; listCategory on a category without visible members removes
\* it and returns null.
C10_EmptyCategoryDropped ==
    /\ LastMemberRemoved =>
          /\ FoundBefore \cap categories = {}
          /\ findCategory(cats, categories, last.title, FALSE).ret = NoCat
    /\ ListedEmpty => (FoundBefore \cap categories = {} /\ last.null)

\* C10, amended: after toggleCategory has removed the last member of a
\* category, the category is still registered, with its count decreased by
\* one, and findCategory(title, false) still returns it; it is dropped by
\* listCategory: listCategory on a category without visible icon members
\* removes it from the index and returns null, and findCategory(title,
\* false) returns not found from then on.
C10_EmptyCategoryDroppedByList ==
    /\ LastMemberRemoved =>
          \A c \in FoundBefore :
             /\ c \in categories
             /\ findCategory(cats, categories, last.title, FALSE).ret = c
             /\ cats[c].count = pre.cats[c].count - 1
    /\ ListedEmpty =>
          /\ FoundBefore \cap categories = {}
          /\ last.null
          /\ findCategory(cats, categories, last.title, FALSE).ret = NoCat

\* listCategory has dropped a category that a toggleCategory had emptied
C10_Witness ==
    /\ ListedEmpty
    /\ \E c \in FoundBefore :
          /\ Members(c) = {}
          /\ pre.cats[c].count = 0
          /\ cats[c].count = 0
          /\ c \notin categories
    /\ last.null

(***************************************************************************)
(* C11: after load(document), every category the document declares is      *)
(* registered in the category index, whatever the number of its listed     *)
(* names that are icons (none included).                                   *)
(***************************************************************************)
Registered(title) == \E c \in categories : cats[c].title = title

C11_DeclaredCategoriesRegistered ==
    last.op = "load" => \A title \in DOMAIN last.document.categories : Registered(title)

(***************************************************************************)
(* C12: after load(document) with legacy themes and explicit theme tables, *)
(* each table has every key derived from a legacy theme and every explicit *)
(* key; a key of both has the explicit title, and the derived keys that    *)
(* the explicit table does not have are kept.                              *)
(***************************************************************************)
DerivedKeys(prop) ==
    UNION {LegacyKeys(last.document.themes[t], prop) : t \in DOMAIN last.document.themes}

ThemesMerged(prop, table) ==
    /\ DerivedKeys(prop) \cup DOMAIN last.document[prop] \subseteq DOMAIN table
    /\ \A key \in DOMAIN last.document[prop] : table[key] = last.document[prop][key]

C12_LegacyAndExplicitThemes ==
    (last.op = "load" /\ "themes" \in DOMAIN last.document)
        => /\ "prefixes" \in DOMAIN last.document => ThemesMerged("prefixes", prefixes)
           /\ "suffixes" \in DOMAIN last.document => ThemesMerged("suffixes", suffixes)

(***************************************************************************)
(* C13: every alias / variation names as parent an entry that is in the    *)
(* store at the moment the alias / variation is inserted, by load as well  *)
(* as by setItem.                                                          *)
(***************************************************************************)
\* load inserts the entries in the order of the store
LoadedParentsPresent ==
    \A i \in 1..Len(order) :
        entries[order[i]].type # "icon"
            => \E j \in 1..(i - 1) : order[j] = entries[order[i]].parent

C13_ParentPresentAtInsertion ==
    /\ last.op = "load" => LoadedParentsPresent
    /\ (last.op = "setItem" /\ last.ok /\ last.item.type # "icon")
            => last.item.parent \in DOMAIN pre.entries

(***************************************************************************)
(* C14: checkTheme partitions the visible entries (resolvable, no alias,   *)
(* not hidden by their own or by their resolved properties): a visible     *)
(* name is in exactly one place, the bucket of the longest key that        *)
(* matches it (prefix mode: the name starts with key + '-'; suffix mode:   *)
(* it ends with '-' + key; the empty key matches every name), or the       *)
(* invalid list if and only if no key matches; an entry that is not        *)
(* visible is in no place.                                                 *)
(***************************************************************************)
StartsWith(text, head) ==
    Len(text) >= Len(head) /\ SubSeq(text, 1, Len(head)) = head

EndsWith(text, tail) ==
    Len(text) >= Len(tail) /\ SubSeq(text, Len(text) - Len(tail) + 1, Len(text)) = tail

CheckedThemes == IF last.prefix THEN prefixes ELSE suffixes

MatchingKeys(name) ==
    {key \in DOMAIN CheckedThemes :
        \/ Text(key) = << >>
        \/ IF last.prefix THEN StartsWith(Text(name), Text(key) \o <<"-">>)
           ELSE EndsWith(Text(name), <<"-">> \o Text(key))}

LongestKeys(name) ==
    {key \in MatchingKeys(name) :
        \A other \in MatchingKeys(name) : Len(Text(other)) <= Len(Text(key))}

Visible(name) ==
    /\ resolve(entries, name) # Null
    /\ entries[name].type # "alias"
    /\ ~IsHidden(entries[name].props)
    /\ ~IsHidden(resolve(entries, name))

\* the places of a name in the result of the check
ValidPlaces(name) ==
    {place \in (DOMAIN last.valid) \X (1..Cardinality(DOMAIN entries)) :
        /\ place[2] <= Len(last.valid[place[1]])
        /\ last.valid[place[1]][place[2]] = name}

InvalidPlaces(name) == {i \in 1..Len(last.list) : last.list[i] = name}

C14_CheckThemePartition ==
    last.op = "checkTheme"
        => /\ DOMAIN last.valid = DOMAIN CheckedThemes
           /\ \A name \in DOMAIN entries :
                IF Visible(name)
                THEN /\ Cardinality(ValidPlaces(name)) + Cardinality(InvalidPlaces(name)) = 1
                     /\ InvalidPlaces(name) # {} <=> MatchingKeys(name) = {}
                     /\ \A place \in ValidPlaces(name) : place[1] \in LongestKeys(name)
                ELSE ValidPlaces(name) = {} /\ InvalidPlaces(name) = {}

\* a check with a name that two keys match beside the empty key, a name no
\* key matches and entries that are not visible
C14_Witness ==
    /\ last.op = "checkTheme"
    /\ \E name \in DOMAIN entries :
            /\ Visible(name)
            /\ Cardinality({key \in MatchingKeys(name) : Text(key) # << >>}) >= 2
            /\ ValidPlaces(name) # {}
    /\ \E name \in DOMAIN entries : Visible(name) /\ InvalidPlaces(name) # {}
    /\ \E name \in DOMAIN entries : ~Visible(name)

(***************************************************************************)
(* C15: no operation throws: a failure is reported by the result of the    *)
(* call; chars(names) with a name that is not in the store returns a map.  *)
(***************************************************************************)
C15_NoOperationThrows == ~last.threw

(***************************************************************************)
(* C16: forEach runs its steps one after the other: the callback of the    *)
(* next entry is not started before the callback of the previous entry,    *)
(* or its promise, has completed; the entries are visited in the order of  *)
(* the store, restricted to the selected kinds; after a step that returns  *)
(* false (directly or through its promise) no callback is called.          *)
(***************************************************************************)
\* the callbacks that have been started and have not completed
OpenCallbacks == Len(each.log) - Len(each.results)

\* the selected entries of the store forEach was called on, in its order
ListAtCall ==
    FilterSeq(each.at.order, {name \in DOMAIN each.at.entries :
                                each.at.entries[name].type \in each.types})

C16_ForEachSequential ==
    each.pc # "idle"
        => /\ OpenCallbacks \in {0, 1}
           /\ OpenCallbacks = 1 <=> each.pc \in {"callback", "await"}
           /\ each.log = FilterSeq(ListAtCall, Range(each.log))
           /\ each.edits = 0 => each.log = SubSeq(ListAtCall, 1, Len(each.log))
           /\ (each.pc = "done" /\ each.edits = 0 /\ "false" \notin Range(each.results))
                => each.log = ListAtCall
           /\ \A j \in 1..Len(each.results) :
                each.results[j] = "false" => (j = Len(each.log) /\ each.pc = "done")

\* a call that has waited for a promise and has ended on false at its second
\* entry, with a third one left
C16_Witness ==
    /\ each.pc = "done"
    /\ each.awaited >= 1
    /\ each.results = <<"other", "false">>
    /\ Len(ListAtCall) = 3
    /\ Len(each.log) = 2

(***************************************************************************)
(* C17: rotation accumulates modulo 4 along a chain of variations: k       *)
(* variations that each add rotate 1, stacked over an icon of rotation 0,  *)
(* resolve to rotate k mod 4 (2 for two, 3 for three, 0 for four), for k   *)
(* within the depth bound.                                                 *)
(***************************************************************************)
\* name is the top of k variations of rotate 1 stacked over an icon that
\* has no rotation
RECURSIVE Stacked(_, _, _)
Stacked(ents, name, k) ==
    /\ name \in DOMAIN ents
    /\ IF k = 0
       THEN ents[name].type = "icon" /\ "rotate" \notin DOMAIN ents[name].props
       ELSE /\ ents[name].type = "variation"
            /\ ents[name].props = RotateOnce
            /\ Stacked(ents, ents[name].parent, k - 1)

C17_RotationAccumulates ==
    last.op = "resolve"
        => \A k \in 1..maxIteration :
              Stacked(entries, last.name, k)
                  => /\ ~last.null
                     /\ "rotate" \in DOMAIN last.icon
                     /\ last.icon.rotate = k % 4

\* four stacked variations resolve to rotate 0
C17_Witness ==
    /\ last.op = "resolve"
    /\ Stacked(entries, last.name, 4)
    /\ ~last.null
    /\ last.icon.rotate = 0

NoCycle(ents) == \A n \in DOMAIN ents : n \notin Dependents(ents, n)

C19_ReparentingKeepsChains ==
    (last.op = "remove" /\ last.mode = "parent" /\ last.num > 0 /\ NoCycle(pre.entries))
        => /\ NoCycle(entries)
           /\ \A n \in DOMAIN pre.entries \ {last.name} :
                resolve(pre.entries, n) # Null => resolve(entries, n) # Null

RemovedBeforeTurn(name) ==
    /\ name \in DOMAIN each.removed
    /\ \A j \in 1..each.removed[name] : each.log[j] # name

\* the name has been visited after an entry was added under it
VisitedAfterAdded(name) ==
    /\ name \in DOMAIN each.added
    /\ \E j \in (each.added[name] + 1)..Len(each.log) : each.log[j] = name

VisitedOnce ==
    \A j, k \in 1..Len(each.log) : each.log[j] = each.log[k] => j = k

\* C21 as stated
C21_ForEachSnapshot ==
    each.pc # "idle"
        => /\ \A name \in DOMAIN each.removed :
                RemovedBeforeTurn(name) => name \notin Range(each.log)
           /\ \A name \in DOMAIN each.added : ~VisitedAfterAdded(name)
           /\ VisitedOnce

\* C21, amended: the snapshot is one of names, not of entries: a name that
\* has left the store before its turn is skipped unless an entry has been
\* stored under it again, and an entry added under a name that is not in
\* the snapshot is never visited
C21_ForEachSnapshotOfNames ==
    each.pc # "idle"
        => /\ each.names = ListAtCall
           /\ Range(each.log) \subseteq Range(each.names)
           /\ \A name \in DOMAIN each.removed :
                (RemovedBeforeTurn(name) /\ name \notin DOMAIN each.added)
                    => name \notin Range(each.log)
           /\ \A name \in DOMAIN each.added :
                name \notin Range(each.names) => name \notin Range(each.log)
           /\ VisitedOnce

\* a call that has returned after it has skipped a name removed before its
\* turn and has not visited a name added meanwhile, with callbacks called
\* before and after
C21_Witness ==
    /\ each.pc = "done"
    /\ "false" \notin Range(each.results)
    /\ Len(each.log) >= 2
    /\ \E name \in DOMAIN each.removed :
            /\ RemovedBeforeTurn(name)
            /\ name \in Range(each.names)
            /\ name \notin DOMAIN each.added
            /\ each.removed[name] < Len(each.log)
    /\ \E name \in DOMAIN each.added : name \notin Range(each.names)

====
